---- MODULE Spec2Model ----
(***************************************************************************)
(* State-machine model of src/flappy_bird.py: the frame loop               *)
(* FlappyBird.run, its event handlers, the simulation tick                 *)
(* (update_game_objects + check_collisions), session reset and the         *)
(* high-score file.                                                        *)
(*                                                                         *)
(* Specifications.  Spec is the game loop with every input.  SpecLong is   *)
(* the same loop followed for longer with fewer inputs, SpecVolley that    *)
(* loop longer still, SpecFall that loop with inputs that stop and a fair  *)
(* clock.  SpecWalls,                                                      *)
(* SpecPlayer and SpecStartup exercise create_wall_pair, a Player object   *)
(* and the constructor's high-score load on their own.                     *)
(*                                                                         *)
(* Number representation.  Python floats that the program computes with    *)
(* (positions, speeds, velocity) are multiples of 0.5 for the              *)
(* configuration below; a float f is represented by the integer 2*f        *)
(* ("half pixels").  Float(n) is float(n) of an int, PyInt(f) is int(f),     *)
(* truncation toward zero.  Rect fields are plain ints (pixels).  The      *)
(* score is a Python number that grows by 0.5 and 2; it is represented     *)
(* the same way (score = 2 * self.score).                                  *)
(* Times are pygame.time.get_ticks() milliseconds.                         *)
(***************************************************************************)
EXTENDS Integers, Sequences, FiniteSets, TLC

(***************************************************************************)
(* Bounds of the exploration (not program constants).                      *)
(***************************************************************************)
MaxTime == 2000
MaxEvents == 2

(***************************************************************************)
(* Configuration (levels.json, read by FlappyBird.__init__).               *)
(***************************************************************************)
width == 80
height == 120
fps == 4
player_width == 20
player_height == 15
\* floats, in half units: gravity 7.5, flap_strength -22.5, max_velocity 22.5
player_gravity == 15
player_flap_strength == -45
player_max_velocity == 45
walls_width == 20
walls_gap == 40
\* walls.speed 12.5 (half units) times the level's integer multiplier
walls_speed == 25
wall_speed_multiplier == 3
wall_frequency == 1000
enemies_width == 20
enemies_height == 20
\* enemies.speed 7.5 (half units) times the level's integer multiplier
enemies_speed == 15
enemy_speed_multiplier == 2
enemies_spawn_rate == 200
enemy_count == 2

(***************************************************************************)
(* Constants written in the program text.                                  *)
(***************************************************************************)
shot_cooldown == 500
projectile_width == 20
projectile_height == 10
\* Projectile speed 10 (line 235), in half units
projectile_speed == 20
amplitude == 100
button_padding == 20
\* size of the rendered "Start Game" text surface (font metrics)
text_width == 30
text_height == 20

(***************************************************************************)
(* Python / pygame primitives.                                             *)
(***************************************************************************)
Float(n) == 2 * n

PyInt(f) == IF f >= 0 THEN f \div 2 ELSE -((-f) \div 2)

Min(a, b) == IF a <= b THEN a ELSE b

Max(a, b) == IF a >= b THEN a ELSE b

Rect(x, y, w, h) == [x |-> x, y |-> y, w |-> w, h |-> h]

RectRight(r) == r.x + r.w

RectBottom(r) == r.y + r.h

RectCentery(r) == r.y + (r.h \div 2)

colliderect(a, b) ==
    /\ a.x < b.x + b.w
    /\ a.y < b.y + b.h
    /\ a.x + a.w > b.x
    /\ a.y + a.h > b.y

collidepoint(r, p) ==
    /\ p[1] >= r.x
    /\ p[1] < r.x + r.w
    /\ p[2] >= r.y
    /\ p[2] < r.y + r.h

\* list.remove(x): delete the first element equal to x
RECURSIVE Remove(_, _)
Remove(s, x) ==
    IF s = <<>> THEN <<>>
    ELSE IF Head(s) = x THEN Tail(s)
    ELSE <<Head(s)>> \o Remove(Tail(s), x)

(***************************************************************************)
(* Values the environment supplies: frame durations of clock.tick(fps),    *)
(* the clock at construction, random.randint results, random phases,       *)
(* pointer positions, the content of highscore.txt at startup.             *)
(***************************************************************************)
FrameDeltas == {1000 \div fps}

StartTimes == {1000 \div fps}

\* random.randint(wall_config['gap'], self.height - wall_config['gap'])
GapYs == {g \in walls_gap .. (height - walls_gap) :
             g \in {walls_gap, height - walls_gap}}

\* random.randint(enemy_config['height'], self.height - enemy_config['height'])
EnemyYs == {y \in enemies_height .. (height - enemies_height) : y \in {60}}

\* random.random() * 10: phase 1 is time = 3.1, phase 2 is time = 0.0
Phases == {1, 2}

\* floor(amplitude * math.sin(time)) after k additions of 0.05 to the phase
SinFloor ==
    << <<-1, -6, -11, -16, -21, -26, -31, -36, -40, -45, -49, -53, -58, -62, -66>>,
       <<4, 9, 14, 19, 24, 29, 34, 38, 43, 47, 52, 56, 60, 64, 68>> >>

\* ceil(amplitude * math.sin(time)) after k additions of 0.05 to the phase
SinCeil ==
    << <<0, -5, -10, -15, -20, -25, -30, -35, -39, -44, -48, -52, -57, -61, -65>>,
       <<5, 10, 15, 20, 25, 30, 35, 39, 44, 48, 53, 57, 61, 65, 69>> >>

\* int(self.original_y + self.amplitude * math.sin(self.time)), k = age
EnemyRectY(original_y, phase, k) ==
    IF original_y + SinFloor[phase][k] >= 0
    THEN original_y + SinFloor[phase][k]
    ELSE original_y + SinCeil[phase][k]

\* highscore.txt: absent, holding the text of an integer, or other text
Missing == [kind |-> "missing", value |-> 0]

IntFile(n) == [kind |-> "int", value |-> n]

\* a file whose text int() rejects (empty, "abc", "12.5")
Corrupt == [kind |-> "corrupt", value |-> 0]

FileContents == {Missing, IntFile(1)}

(***************************************************************************)
(* Entities.                                                               *)
(***************************************************************************)
Player(x, y) ==
    [x |-> Float(x), y |-> Float(y),
     rect |-> Rect(x, y, player_width, player_height),
     velocity |-> 0]

\* variant: the fall speed is not capped
PlayerUpdate_NoCap(p) ==
    LET v == p.velocity + player_gravity
        y == p.y + v
    IN [p EXCEPT !.velocity = v, !.y = y, !.rect.y = PyInt(y)]

PlayerUpdate(p) ==
    LET v == Min(p.velocity + player_gravity, player_max_velocity)
        y == p.y + v
    IN [p EXCEPT !.velocity = v, !.y = y, !.rect.y = PyInt(y)]

PlayerFlap(p) == [p EXCEPT !.velocity = player_flap_strength]

Wall(x, y, w, h, speed) ==
    [x |-> Float(x), y |-> Float(y), rect |-> Rect(x, y, w, h), speed |-> speed]

WallUpdate(w) ==
    LET x == w.x - w.speed
    IN [w EXCEPT !.x = x, !.rect.x = PyInt(x)]

Projectile(x, y, speed) ==
    [x |-> Float(x), y |-> Float(y),
     rect |-> Rect(x, y, projectile_width, projectile_height), speed |-> speed]

ProjectileUpdate(p) ==
    LET x == p.x + p.speed
    IN [p EXCEPT !.x = x, !.rect.x = PyInt(x)]

Enemy(x, y, phase, speed_multiplier) ==
    [x |-> Float(x), original_y |-> y, phase |-> phase, age |-> 0,
     rect |-> Rect(x, y, enemies_width, enemies_height),
     speed |-> enemies_speed * speed_multiplier]

EnemyUpdate(e) ==
    LET x == e.x - e.speed
        k == e.age + 1
    IN [e EXCEPT !.x = x, !.age = k, !.rect.x = PyInt(x),
                 !.rect.y = EnemyRectY(e.original_y, e.phase, k)]

(***************************************************************************)
(* High-score file.                                                        *)
(***************************************************************************)
\* open() raises FileNotFoundError, which is caught and gives 0; int() of
\* the text gives its value or raises ValueError, which is not caught
load_high_score(file) ==
    IF file.kind = "missing" THEN [raised |-> "none", value |-> 0]
    ELSE IF file.kind = "int" THEN [raised |-> "none", value |-> file.value]
    ELSE [raised |-> "ValueError", value |-> 0]

\* f.write(str(self.high_score))
save_high_score(hs) == IntFile(hs)

(***************************************************************************)
(* Session construction.                                                   *)
(***************************************************************************)
\* variant: the bottom segment is created one wall width further right
WallPair_BottomOffset(gap, gap_y) ==
    LET wall_speed == walls_speed * wall_speed_multiplier
        top_wall == Wall(width, 0, walls_width,
                         gap_y - (gap \div 2), wall_speed)
        bottom_wall == Wall(width + walls_width, gap_y + (gap \div 2),
                            walls_width,
                            height - (gap_y + (gap \div 2)), wall_speed)
    IN <<top_wall, bottom_wall>>

\* the two segments create_wall_pair builds when the configuration's
\* walls.gap is gap and random.randint returned gap_y
WallPair(gap, gap_y) ==
    LET wall_speed == walls_speed * wall_speed_multiplier
        top_wall == Wall(width, 0, walls_width,
                         gap_y - (gap \div 2), wall_speed)
        bottom_wall == Wall(width, gap_y + (gap \div 2), walls_width,
                            height - (gap_y + (gap \div 2)), wall_speed)
    IN <<top_wall, bottom_wall>>

create_wall_pair(ws, gap_y) == ws \o WallPair(walls_gap, gap_y)

spawn_enemy(es, y, phase) ==
    Append(es, Enemy(width, y, phase, enemy_speed_multiplier))

\* variant: the reset primes two obstacle pairs
reset_game_TwoPairs(current_time, gap_y) ==
    [player |-> Player(width \div 4, height \div 2),
     walls |-> create_wall_pair(create_wall_pair(<<>>, gap_y), gap_y),
     enemies |-> <<>>,
     projectiles |-> <<>>,
     last_wall |-> 0,
     last_enemy |-> current_time,
     last_shot |-> current_time,
     score |-> 0]

\* the fields reset_game assigns, given the clock and the random gap
reset_game(current_time, gap_y) ==
    [player |-> Player(width \div 4, height \div 2),
     walls |-> create_wall_pair(<<>>, gap_y),
     enemies |-> <<>>,
     projectiles |-> <<>>,
     last_wall |-> 0,
     last_enemy |-> current_time,
     last_shot |-> current_time,
     score |-> 0]

create_button(y_position) ==
    LET text_x == (width \div 2) - (text_width \div 2)
        text_y == y_position - (text_height \div 2)
        w == text_width + 2 * button_padding
        h == text_height + 2 * button_padding
    IN Rect((width \div 2) - (w \div 2), text_y - button_padding, w, h)

ClickPositions ==
    LET b == create_button(height \div 2)
    IN {<<width \div 2, height \div 2>>, <<0, 0>>, <<RectRight(b), b.y>>}

(***************************************************************************)
(* The simulation tick.                                                    *)
(***************************************************************************)
\* variant: a removed segment scores a whole point
RECURSIVE UpdateWalls_WholePoint(_, _)
UpdateWalls_WholePoint(ws, acc) ==
    IF ws = <<>> THEN acc
    ELSE LET wall == WallUpdate(Head(ws))
         IN IF RectRight(wall.rect) < 0
            THEN UpdateWalls_WholePoint(Tail(ws),
                     [acc EXCEPT !.score = @ + 2, !.culled = @ + 1])
            ELSE UpdateWalls_WholePoint(Tail(ws),
                     [acc EXCEPT !.walls = Append(@, wall)])

\* for wall in self.walls[:]: update, remove when off the left edge, score
RECURSIVE UpdateWalls(_, _)
UpdateWalls(ws, acc) ==
    IF ws = <<>> THEN acc
    ELSE LET wall == WallUpdate(Head(ws))
         IN IF RectRight(wall.rect) < 0
            THEN UpdateWalls(Tail(ws),
                     [acc EXCEPT !.score = @ + 1, !.culled = @ + 1])
            ELSE UpdateWalls(Tail(ws),
                     [acc EXCEPT !.walls = Append(@, wall)])

\* variant: an enemy is removed only a screen width past the left edge
RECURSIVE UpdateEnemies_CullLate(_, _)
UpdateEnemies_CullLate(es, acc) ==
    IF es = <<>> THEN acc
    ELSE LET enemy == EnemyUpdate(Head(es))
         IN IF RectRight(enemy.rect) < -width
            THEN UpdateEnemies_CullLate(Tail(es), acc)
            ELSE UpdateEnemies_CullLate(Tail(es), Append(acc, enemy))

\* for enemy in self.enemies[:]: update, remove when off the left edge
RECURSIVE UpdateEnemies(_, _)
UpdateEnemies(es, acc) ==
    IF es = <<>> THEN acc
    ELSE LET enemy == EnemyUpdate(Head(es))
         IN IF RectRight(enemy.rect) < 0
            THEN UpdateEnemies(Tail(es), acc)
            ELSE UpdateEnemies(Tail(es), Append(acc, enemy))

\* for enemy in self.enemies[:]: the first enemy the projectile collides with
\* (its index in es), 0 when there is none
RECURSIVE FirstHit(_, _, _)
FirstHit(projectile, es, i) ==
    IF i > Len(es) THEN 0
    ELSE IF colliderect(projectile.rect, es[i].rect) THEN i
    ELSE FirstHit(projectile, es, i + 1)

\* variant: a kill scores one point
RECURSIVE UpdateProjectiles_OnePoint(_, _)
UpdateProjectiles_OnePoint(ps, acc) ==
    IF ps = <<>> THEN acc
    ELSE LET projectile == ProjectileUpdate(Head(ps))
             i == FirstHit(projectile, acc.enemies, 1)
         IN IF projectile.rect.x > width
            THEN UpdateProjectiles_OnePoint(Tail(ps), acc)
            ELSE IF i > 0
            THEN UpdateProjectiles_OnePoint(Tail(ps),
                     [acc EXCEPT !.enemies = Remove(@, acc.enemies[i]),
                                 !.score = @ + 2,
                                 !.hits = Append(@, [projectile |-> projectile,
                                                     enemy |-> acc.enemies[i]])])
            ELSE UpdateProjectiles_OnePoint(Tail(ps),
                     [acc EXCEPT !.projectiles = Append(@, projectile)])

\* variant: a projectile that hits is not removed
RECURSIVE UpdateProjectiles_KeepProjectile(_, _)
UpdateProjectiles_KeepProjectile(ps, acc) ==
    IF ps = <<>> THEN acc
    ELSE LET projectile == ProjectileUpdate(Head(ps))
             i == FirstHit(projectile, acc.enemies, 1)
         IN IF projectile.rect.x > width
            THEN UpdateProjectiles_KeepProjectile(Tail(ps), acc)
            ELSE IF i > 0
            THEN UpdateProjectiles_KeepProjectile(Tail(ps),
                     [acc EXCEPT !.enemies = Remove(@, acc.enemies[i]),
                                 !.projectiles = Append(@, projectile),
                                 !.score = @ + 4,
                                 !.hits = Append(@, [projectile |-> projectile,
                                                     enemy |-> acc.enemies[i]])])
            ELSE UpdateProjectiles_KeepProjectile(Tail(ps),
                     [acc EXCEPT !.projectiles = Append(@, projectile)])

\* for projectile in self.projectiles[:]: update, remove when off the right
\* edge, else resolve its first hit
RECURSIVE UpdateProjectiles(_, _)
UpdateProjectiles(ps, acc) ==
    IF ps = <<>> THEN acc
    ELSE LET projectile == ProjectileUpdate(Head(ps))
             i == FirstHit(projectile, acc.enemies, 1)
         IN IF projectile.rect.x > width
            THEN UpdateProjectiles(Tail(ps), acc)
            ELSE IF i > 0
            THEN UpdateProjectiles(Tail(ps),
                     [acc EXCEPT !.enemies = Remove(@, acc.enemies[i]),
                                 !.score = @ + 4,
                                 !.hits = Append(@, [projectile |-> projectile,
                                                     enemy |-> acc.enemies[i]])])
            ELSE UpdateProjectiles(Tail(ps),
                     [acc EXCEPT !.projectiles = Append(@, projectile)])

WallDue(current_time, lw) == current_time - lw > wall_frequency

EnemyDue(current_time, le) == current_time - le > enemies_spawn_rate

\* variant: the cap test lets a spawn through at the cap
BelowCap_Inclusive(es) == Len(es) <= enemy_count

\* if len(self.enemies) < level_data['enemy_count']
BelowCap(es) == Len(es) < enemy_count

\* variant: the spawn scheduler runs before the motion step
update_game_objects_SpawnFirst(g, current_time, gap_y, enemy_y, phase) ==
    LET wd == WallDue(current_time, g.last_wall)
        ed == EnemyDue(current_time, g.last_enemy) /\ BelowCap(g.enemies)
        w0 == IF wd THEN create_wall_pair(g.walls, gap_y) ELSE g.walls
        e0 == IF ed THEN spawn_enemy(g.enemies, enemy_y, phase) ELSE g.enemies
        p1 == PlayerUpdate(g.player)
        w1 == UpdateWalls(w0, [walls |-> <<>>, score |-> g.score, culled |-> 0])
        e1 == UpdateEnemies(e0, <<>>)
        s1 == UpdateProjectiles(g.projectiles,
                  [projectiles |-> <<>>, enemies |-> e1, score |-> w1.score,
                   hits |-> <<>>])
    IN [player |-> p1,
        walls |-> w1.walls,
        enemies |-> s1.enemies,
        projectiles |-> s1.projectiles,
        score |-> s1.score,
        last_wall |-> IF wd THEN current_time ELSE g.last_wall,
        last_enemy |-> IF ed THEN current_time ELSE g.last_enemy,
        last_shot |-> g.last_shot,
        culled |-> w1.culled,
        hits |-> s1.hits,
        wall_spawned |-> wd,
        enemy_spawned |-> ed]

\* g: the session fields; the result adds what the tick did (culled, hits,
\* wall_spawned, enemy_spawned)
update_game_objects(g, current_time, gap_y, enemy_y, phase) ==
    LET p1 == PlayerUpdate(g.player)
        w1 == UpdateWalls(g.walls, [walls |-> <<>>, score |-> g.score, culled |-> 0])
        e1 == UpdateEnemies(g.enemies, <<>>)
        s1 == UpdateProjectiles(g.projectiles,
                  [projectiles |-> <<>>, enemies |-> e1, score |-> w1.score,
                   hits |-> <<>>])
        wd == WallDue(current_time, g.last_wall)
        ed == EnemyDue(current_time, g.last_enemy)
                 /\ BelowCap(s1.enemies)
    IN [player |-> p1,
        walls |-> IF wd THEN create_wall_pair(w1.walls, gap_y) ELSE w1.walls,
        enemies |-> IF ed THEN spawn_enemy(s1.enemies, enemy_y, phase)
                    ELSE s1.enemies,
        projectiles |-> s1.projectiles,
        score |-> s1.score,
        last_wall |-> IF wd THEN current_time ELSE g.last_wall,
        last_enemy |-> IF ed THEN current_time ELSE g.last_enemy,
        last_shot |-> g.last_shot,
        culled |-> w1.culled,
        hits |-> s1.hits,
        wall_spawned |-> wd,
        enemy_spawned |-> ed]

HitsWall(p, ws) == \E i \in 1 .. Len(ws) : colliderect(p.rect, ws[i].rect)

HitsEnemy(p, es) == \E i \in 1 .. Len(es) : colliderect(p.rect, es[i].rect)

\* variant: the bottom of the screen is not tested
OutOfBounds_TopOnly(p) == p.rect.y <= 0

\* variant: touching the screen edge is not a collision
OutOfBounds_Strict(p) == p.rect.y < 0 \/ RectBottom(p.rect) > height

OutOfBounds(p) == p.rect.y <= 0 \/ RectBottom(p.rect) >= height

check_collisions(p, ws, es) ==
    HitsWall(p, ws) \/ HitsEnemy(p, es) \/ OutOfBounds(p)

\* variant: the player is tested against the moved entities before
\* culling and hit resolution remove any
TickCollision_BeforeRemovals(g0, g) ==
    check_collisions(g.player,
                     [i \in 1 .. Len(g0.walls) |-> WallUpdate(g0.walls[i])],
                     [i \in 1 .. Len(g0.enemies) |-> EnemyUpdate(g0.enemies[i])])

\* self.update_game_objects() then if self.check_collisions(): the tests
\* see the session g that update_game_objects left, g0 being the session
\* it found
TickCollision(g0, g) == check_collisions(g.player, g.walls, g.enemies)

\* variant: a score equal to the high score also counts as beating it
BeatsHighScore_OrEqual(sc, hs) == sc >= Float(hs)

\* if self.score > self.high_score (score in half points)
BeatsHighScore(sc, hs) == sc > Float(hs)

\* int(self.score)
ScoreInt(sc) == PyInt(sc)

\* variant: the cooldown test is >= instead of >
CooldownElapsed_AtLeast(current_time, ls) == current_time - ls >= shot_cooldown

\* current_time - self.last_shot > self.shot_cooldown
CooldownElapsed(current_time, ls) == current_time - ls > shot_cooldown

shoot_projectile(g, current_time) ==
    IF CooldownElapsed(current_time, g.last_shot)
    THEN [g EXCEPT !.projectiles =
                       Append(@, Projectile(RectRight(g.player.rect),
                                            RectCentery(g.player.rect),
                                            projectile_speed)),
                   !.last_shot = current_time]
    ELSE g

(***************************************************************************)
(* State.                                                                  *)
(*   running, exited      the loop flag of run() and whether run() left    *)
(*                        the loop                                         *)
(*   handled              events dispatched so far in the current frame    *)
(*   now                  pygame.time.get_ticks() during the current frame *)
(*   start_button_rect    Unset until draw_start_screen stores it          *)
(*   highscore_file, file_writes   content of highscore.txt and the number *)
(*                        of save_high_score calls                         *)
(*   obs                  what the last step was and did (history only)    *)
(*   unit                 the object of a specification that exercises one *)
(*                        method or one object on its own (NoUnit in the   *)
(*                        game loop's specification)                       *)
(***************************************************************************)
VARIABLES running, exited, handled, now, game_state, start_button_rect,
          player, walls, enemies, projectiles, score, high_score,
          last_wall, last_enemy, last_shot, highscore_file, file_writes, obs,
          unit

game == <<running, exited, handled, now, game_state, start_button_rect,
          player, walls, enemies, projectiles, score, high_score,
          last_wall, last_enemy, last_shot, highscore_file, file_writes, obs>>

vars == <<game, unit>>

NoUnit == [fn |-> "none"]

session == <<player, walls, enemies, projectiles, score,
             last_wall, last_enemy, last_shot>>

\* the attribute start_button_rect: <<>> while the object has no such
\* attribute, <<rect>> once it has
Unset == <<>>

hasattr_start_button_rect == start_button_rect # Unset

Session ==
    [player |-> player, walls |-> walls, enemies |-> enemies,
     projectiles |-> projectiles, score |-> score, last_wall |-> last_wall,
     last_enemy |-> last_enemy, last_shot |-> last_shot]

SetSession(g) ==
    /\ player' = g.player
    /\ walls' = g.walls
    /\ enemies' = g.enemies
    /\ projectiles' = g.projectiles
    /\ score' = g.score
    /\ last_wall' = g.last_wall
    /\ last_enemy' = g.last_enemy
    /\ last_shot' = g.last_shot

NoEvent == [type |-> "NONE", button |-> 0, pos |-> <<0, 0>>, key |-> "NONE"]

QuitEvent == [NoEvent EXCEPT !.type = "QUIT"]

MouseEvent(button, pos) ==
    [NoEvent EXCEPT !.type = "MOUSEBUTTONDOWN", !.button = button, !.pos = pos]

KeyEvent(key) == [NoEvent EXCEPT !.type = "KEYDOWN", !.key = key]

Buttons == {1, 3}

Keys == {"K_SPACE", "K_RIGHT", "K_LEFT"}

NoObs ==
    [kind |-> "construct", from |-> "START",
     fired |-> FALSE, restarted |-> FALSE, ticked |-> FALSE,
     collided |-> FALSE, culled |-> 0, hits |-> <<>>,
     wall_spawned |-> FALSE, enemy_spawned |-> FALSE, saved |-> FALSE,
     at |-> 0]

EventObs(ev) ==
    [NoObs EXCEPT !.kind = "event", !.from = game_state, !.at = now]

\* FlappyBird.__init__
InitGame ==
    /\ running = TRUE
    /\ exited = FALSE
    /\ handled = 0
    /\ now \in StartTimes
    /\ game_state = "START"
    /\ start_button_rect = Unset
    /\ highscore_file \in FileContents
    /\ file_writes = 0
    /\ load_high_score(highscore_file).raised = "none"
    /\ high_score = load_high_score(highscore_file).value
    /\ \E gap_y \in GapYs :
          LET g == reset_game(now, gap_y)
          IN /\ player = g.player
             /\ walls = g.walls
             /\ enemies = g.enemies
             /\ projectiles = g.projectiles
             /\ score = g.score
             /\ last_wall = g.last_wall
             /\ last_enemy = g.last_enemy
             /\ last_shot = g.last_shot
    /\ obs = NoObs

Init == InitGame /\ unit = NoUnit

CanDispatch == ~exited /\ handled < MaxEvents

\* if event.type == pygame.QUIT
Quit ==
    /\ CanDispatch
    /\ handled' = handled + 1
    /\ running' = FALSE
    /\ obs' = EventObs(QuitEvent)
    /\ UNCHANGED <<exited, now, game_state, start_button_rect, session,
                   high_score, highscore_file, file_writes, unit>>

\* variant: the start control answers to the right button
MouseState_RightButton(button, pos) ==
    IF /\ button = 3
       /\ game_state = "START"
       /\ hasattr_start_button_rect
       /\ collidepoint(start_button_rect[1], pos)
    THEN "PLAYING"
    ELSE game_state

\* the state a pointer press leaves the game in
MouseState(button, pos) ==
    IF /\ button = 1
       /\ game_state = "START"
       /\ hasattr_start_button_rect
       /\ collidepoint(start_button_rect[1], pos)
    THEN "PLAYING"
    ELSE game_state

\* elif event.type == pygame.MOUSEBUTTONDOWN (the first branch of the chain;
\* the second MOUSEBUTTONDOWN branch is never reached)
MouseButtonDown(button, pos) ==
    /\ CanDispatch
    /\ handled' = handled + 1
    /\ game_state' = MouseState(button, pos)
    /\ obs' = EventObs(MouseEvent(button, pos))
    /\ UNCHANGED <<running, exited, now, start_button_rect, session,
                   high_score, highscore_file, file_writes, unit>>

\* variant: the flap key is not restricted to PLAYING
FlapKey_AnyState(key) == key = "K_SPACE" /\ game_state # "GAME_OVER"

\* if event.key == pygame.K_SPACE: if self.game_state == "PLAYING"
FlapKey(key) == key = "K_SPACE" /\ game_state = "PLAYING"

\* if event.key == pygame.K_SPACE: elif self.game_state == "GAME_OVER"
RestartKey(key) == key = "K_SPACE" /\ game_state = "GAME_OVER"

\* variant: the fire key is not restricted to PLAYING
FireKey_AnyState(key) == key = "K_RIGHT"

\* elif event.key == pygame.K_RIGHT and self.game_state == "PLAYING"
FireKey(key) == key = "K_RIGHT" /\ game_state = "PLAYING"

\* elif event.type == pygame.KEYDOWN
KeyDown(key, gap_y) ==
    /\ CanDispatch
    /\ handled' = handled + 1
    /\ IF FlapKey(key)
       THEN /\ player' = PlayerFlap(player)
            /\ obs' = EventObs(KeyEvent(key))
            /\ UNCHANGED <<game_state, walls, enemies, projectiles, score,
                           last_wall, last_enemy, last_shot>>
       ELSE IF RestartKey(key)
       THEN /\ SetSession(reset_game(now, gap_y))
            /\ game_state' = "PLAYING"
            /\ obs' = [EventObs(KeyEvent(key)) EXCEPT !.restarted = TRUE]
       ELSE IF FireKey(key)
       THEN /\ SetSession(shoot_projectile(Session, now))
            /\ obs' = [EventObs(KeyEvent(key)) EXCEPT
                          !.fired = (Len(projectiles') > Len(projectiles))]
            /\ UNCHANGED game_state
       ELSE /\ obs' = EventObs(KeyEvent(key))
            /\ UNCHANGED <<game_state, session>>
    /\ UNCHANGED <<running, exited, now, start_button_rect,
                   high_score, highscore_file, file_writes, unit>>

\* The rest of one loop iteration: the simulation tick when PLAYING, the
\* game-over bookkeeping, drawing (which stores the start button), and
\* clock.tick; the loop is left when running is False.
LoopBody(dt, gap_y, enemy_y, phase) ==
    /\ ~exited
    /\ LET g == update_game_objects(Session, now, gap_y, enemy_y, phase)
           hit == TickCollision(Session, g)
           beats == BeatsHighScore(g.score, high_score)
       IN IF game_state = "PLAYING"
          THEN /\ SetSession(g)
               /\ game_state' = IF hit THEN "GAME_OVER" ELSE "PLAYING"
               /\ high_score' = IF hit /\ beats THEN ScoreInt(g.score)
                                ELSE high_score
               /\ highscore_file' = IF hit /\ beats THEN save_high_score(high_score')
                                    ELSE highscore_file
               /\ file_writes' = IF hit /\ beats THEN file_writes + 1
                                 ELSE file_writes
               /\ obs' = [NoObs EXCEPT !.kind = "frame", !.from = game_state,
                             !.ticked = TRUE, !.collided = hit,
                             !.culled = g.culled, !.hits = g.hits,
                             !.wall_spawned = g.wall_spawned,
                             !.enemy_spawned = g.enemy_spawned,
                             !.saved = (hit /\ beats), !.at = now]
          ELSE /\ obs' = [NoObs EXCEPT !.kind = "frame", !.from = game_state,
                                       !.at = now]
               /\ UNCHANGED <<game_state, session, high_score,
                              highscore_file, file_writes>>
    /\ start_button_rect' = IF game_state' = "START"
                            THEN <<create_button(height \div 2)>>
                            ELSE start_button_rect
    /\ handled' = 0
    /\ now' = now + dt
    /\ exited' = ~running
    /\ UNCHANGED <<running, unit>>

\* a loop iteration that ends within the explored time
Frame(dt, gap_y, enemy_y, phase) ==
    /\ now + dt <= MaxTime
    /\ LoopBody(dt, gap_y, enemy_y, phase)

\* random values are drawn only where the code draws them: Drawn(S, used) is
\* S when the step calls the generator and one fixed element otherwise
Drawn(S, used) == IF used THEN S ELSE {CHOOSE v \in S : TRUE}

Next ==
    \/ Quit
    \/ \E button \in Buttons, pos \in ClickPositions : MouseButtonDown(button, pos)
    \/ \E key \in Keys :
          \E gap_y \in Drawn(GapYs, key = "K_SPACE" /\ game_state = "GAME_OVER") :
             KeyDown(key, gap_y)
    \/ \E dt \in FrameDeltas :
          \E gap_y \in Drawn(GapYs, game_state = "PLAYING" /\ WallDue(now, last_wall)),
             enemy_y \in Drawn(EnemyYs, game_state = "PLAYING" /\ EnemyDue(now, last_enemy)),
             phase \in Drawn(Phases, game_state = "PLAYING" /\ EnemyDue(now, last_enemy)) :
                Frame(dt, gap_y, enemy_y, phase)

Spec == Init /\ [][Next]_vars

(***************************************************************************)
(* Vocabulary of the properties.                                           *)
(***************************************************************************)
Range(seq) == {seq[i] : i \in 1 .. Len(seq)}

\* the pointer position lies inside the start control drawn on the screen
InsideStartControl(pos) ==
    LET b == create_button(height \div 2)
    IN pos[1] \in b.x .. (b.x + b.w - 1) /\ pos[2] \in b.y .. (b.y + b.h - 1)

\* two bounding boxes share at least one pixel
Overlap(a, b) ==
    \E px \in Max(a.x, b.x) .. (Min(a.x + a.w, b.x + b.w) - 1) :
       \E py \in Max(a.y, b.y) .. (Min(a.y + a.h, b.y + b.h) - 1) : TRUE

\* the step dispatches an event / completes a frame (each handler counts the
\* event, only the end of a frame advances the clock)
EventStep == handled' = handled + 1

FrameStep == now' # now

LeftPress ==
    EventStep /\ \E pos \in ClickPositions : MouseButtonDown(1, pos)

LeftPressInside ==
    EventStep /\ \E pos \in ClickPositions :
                    InsideStartControl(pos) /\ MouseButtonDown(1, pos)

KeyPress(key) == EventStep /\ \E gap_y \in GapYs : KeyDown(key, gap_y)

AnyFrame ==
    FrameStep /\ \E dt \in FrameDeltas, gap_y \in GapYs, enemy_y \in EnemyYs,
                    phase \in Phases : Frame(dt, gap_y, enemy_y, phase)

\* a frame in which the simulation tick ran
Tick == game_state = "PLAYING" /\ AnyFrame

\* a loop iteration at any clock time in which the simulation tick ran
LoopTick ==
    /\ game_state = "PLAYING"
    /\ FrameStep
    /\ \E dt \in FrameDeltas, gap_y \in GapYs, enemy_y \in EnemyYs,
          phase \in Phases : LoopBody(dt, gap_y, enemy_y, phase)

(***************************************************************************)
(* C1.  The game state changes only by the three documented transitions:   *)
(* START -> PLAYING on a left press inside the start control, PLAYING ->   *)
(* GAME_OVER on a collision detected in a tick, GAME_OVER -> PLAYING on    *)
(* SPACE.  Every other (state, input) pair leaves the game state alone; a  *)
(* flap key in START changes neither the state nor the player's velocity;  *)
(* nothing returns the game to START.                                      *)
(***************************************************************************)
C1_OnlyDocumentedTransitions ==
    [][ /\ \A button \in Buttons, pos \in ClickPositions :
             (game_state' # game_state /\ MouseButtonDown(button, pos))
                => /\ game_state = "START" /\ game_state' = "PLAYING"
                   /\ button = 1 /\ InsideStartControl(pos)
        /\ \A key \in Keys :
             (game_state' # game_state /\ KeyPress(key))
                => /\ game_state = "GAME_OVER" /\ game_state' = "PLAYING"
                   /\ key = "K_SPACE"
        /\ (game_state' # game_state /\ AnyFrame)
                => /\ game_state = "PLAYING" /\ game_state' = "GAME_OVER"
                   /\ \/ \E w \in Range(walls') : Overlap(player'.rect, w.rect)
                      \/ \E e \in Range(enemies') : Overlap(player'.rect, e.rect)
                      \/ player'.rect.y <= 0
                      \/ player'.rect.y + player'.rect.h >= height
        /\ Quit => game_state' = game_state
        /\ (game_state = "START" /\ KeyPress("K_SPACE"))
                => game_state' = "START" /\ player' = player
        /\ game_state' = "START" => game_state = "START"
      ]_vars

\* a restart has just happened: the run went START, PLAYING, GAME_OVER, PLAYING
C1_Witness == obs.restarted /\ game_state = "PLAYING"

(***************************************************************************)
(* C2.  In every tick while PLAYING: if after motion the player's box      *)
(* intersects a live obstacle or a live enemy, or its top is <= 0 or its   *)
(* bottom >= the screen height, the state is GAME_OVER at the end of the   *)
(* tick; otherwise it stays PLAYING.                                       *)
(***************************************************************************)
C2_CollisionEndsSession ==
    [][ Tick =>
          IF \/ \E w \in Range(walls') : Overlap(player'.rect, w.rect)
             \/ \E e \in Range(enemies') : Overlap(player'.rect, e.rect)
             \/ player'.rect.y <= 0
             \/ player'.rect.y + player'.rect.h >= height
          THEN game_state' = "GAME_OVER"
          ELSE game_state' = "PLAYING"
      ]_vars

\* a tick ended the session on an enemy alone
C2_Witness ==
    /\ obs.ticked /\ obs.collided /\ game_state = "GAME_OVER"
    /\ \E e \in Range(enemies) : Overlap(player.rect, e.rect)
    /\ ~ \E w \in Range(walls) : Overlap(player.rect, w.rect)
    /\ player.rect.y > 0 /\ player.rect.y + player.rect.h < height

(***************************************************************************)
(* C3.  As claimed: a fire command in PLAYING creates a projectile if and  *)
(* only if at least the cooldown (500 ms) has elapsed since the last       *)
(* successful fire, so it is accepted at exactly the cooldown.             *)
(***************************************************************************)
C3_AcceptedAtCooldown ==
    [][ (game_state = "PLAYING" /\ KeyPress("K_RIGHT"))
           => (Len(projectiles') = Len(projectiles) + 1
                  <=> now - last_shot >= shot_cooldown)
      ]_vars

(***************************************************************************)
(* C3, amended.  A fire command in PLAYING creates a projectile if and     *)
(* only if strictly more than the cooldown has elapsed since last_shot     *)
(* (the time of the last successful fire or of the session reset,          *)
(* whichever is later); at exactly the cooldown it is rejected.  Every     *)
(* creation stamps last_shot with the clock, so two projectiles are never  *)
(* created the cooldown or less apart.                                     *)
(***************************************************************************)
C3_AcceptedAfterCooldown ==
    [][ /\ (game_state = "PLAYING" /\ KeyPress("K_RIGHT"))
              => IF now - last_shot > shot_cooldown
                 THEN /\ Len(projectiles') = Len(projectiles) + 1
                      /\ SubSeq(projectiles', 1, Len(projectiles)) = projectiles
                      /\ projectiles'[Len(projectiles')].rect =
                            Rect(player.rect.x + player.rect.w,
                                 player.rect.y + (player.rect.h \div 2),
                                 projectile_width, projectile_height)
                      /\ last_shot' = now
                 ELSE projectiles' = projectiles /\ last_shot' = last_shot
        /\ Len(projectiles') > Len(projectiles)
              => now - last_shot > shot_cooldown /\ last_shot' = now
        /\ last_shot' # last_shot => last_shot' = now
      ]_vars

\* a second projectile was accepted while an earlier one is still flying
C3_Witness == obs.fired /\ Len(projectiles) >= 2

(***************************************************************************)
(* C4.  A left pointer press received while PLAYING is a fire command:     *)
(* when the cooldown has elapsed it adds one projectile, as the fire key   *)
(* does.                                                                   *)
(***************************************************************************)
C4_LeftPressFires ==
    [][ (game_state = "PLAYING" /\ now - last_shot > shot_cooldown
            /\ LeftPress)
           => Len(projectiles') = Len(projectiles) + 1
      ]_vars

(***************************************************************************)
(* C5.  As claimed: while START, every left press inside the start control *)
(* moves the game to PLAYING, in every frame including the first.          *)
(***************************************************************************)
C5_StartInEveryFrame ==
    [][ (game_state = "START" /\ LeftPressInside) => game_state' = "PLAYING"
      ]_vars

(***************************************************************************)
(* C5, amended.  While START, every left press inside the start control    *)
(* moves the game to PLAYING once the start screen has been drawn, that    *)
(* is in every frame but the first; the control is stored by the first     *)
(* drawing of the start screen, and a press processed before it (in the    *)
(* first frame) is ignored.                                                *)
(***************************************************************************)
C5_StartAfterFirstDraw ==
    /\ [](hasattr_start_button_rect <=> now \notin StartTimes)
    /\ [][ /\ (game_state = "START" /\ hasattr_start_button_rect
                  /\ LeftPressInside)
              => game_state' = "PLAYING"
           /\ (game_state = "START" /\ ~hasattr_start_button_rect
                  /\ LeftPress)
              => game_state' = "START"
         ]_vars

\* the game was started by a press
C5_Witness ==
    obs.kind = "event" /\ obs.from = "START" /\ game_state = "PLAYING"

(***************************************************************************)
(* C6.  A restart from GAME_OVER yields score 0, exactly one primed        *)
(* obstacle pair (two segments), empty enemy and projectile collections,   *)
(* a new player at (width // 4, height // 2) with velocity 0, and the      *)
(* state PLAYING.                                                          *)
(***************************************************************************)
C6_RestartState ==
    [][ (game_state = "GAME_OVER" /\ KeyPress("K_SPACE"))
           => /\ game_state' = "PLAYING"
              /\ score' = 0
              /\ Len(walls') = 2
              /\ walls'[1].rect.x = width /\ walls'[2].rect.x = width
              /\ walls'[1].rect.y = 0
              /\ walls'[2].rect.y + walls'[2].rect.h = height
              /\ walls'[1].rect.h < walls'[2].rect.y
              /\ enemies' = <<>>
              /\ projectiles' = <<>>
              /\ player'.rect.x = width \div 4
              /\ player'.rect.y = height \div 2
              /\ player'.x = 2 * (width \div 4)
              /\ player'.y = 2 * (height \div 2)
              /\ player'.velocity = 0
      ]_vars

\* a restart after a session that scored
C6_Witness == obs.restarted /\ file_writes > 0 /\ score = 0

(***************************************************************************)
(* C7.  A session reset sets all three spawn timers (last-obstacle,        *)
(* last-enemy, last-shot) to the current clock time.  (Violated:           *)
(* reset_game stamps last_enemy and last_shot with the clock but assigns   *)
(* last_wall = 0, although it creates the first pair itself.)              *)
(***************************************************************************)
C7_AllTimersNow ==
    (obs.restarted \/ obs.kind = "construct")
       => last_wall = now /\ last_enemy = now /\ last_shot = now

(***************************************************************************)
(* C8.  On every entry to GAME_OVER the high score is updated and          *)
(* persisted if and only if the score truncated to an integer exceeds the  *)
(* stored high score; afterwards the high score is max(previous high       *)
(* score, truncated score); when the truncated score does not exceed it    *)
(* nothing is written.  No other step writes the file.                     *)
(***************************************************************************)
C8_HighScoreOnGameOver ==
    [][ /\ (game_state = "PLAYING" /\ game_state' = "GAME_OVER")
              => LET truncated == IF score' >= 0 THEN score' \div 2
                                  ELSE -((-score') \div 2)
                 IN /\ high_score' = Max(high_score, truncated)
                    /\ IF truncated > high_score
                       THEN /\ highscore_file' = IntFile(truncated)
                            /\ file_writes' = file_writes + 1
                       ELSE /\ highscore_file' = highscore_file
                            /\ file_writes' = file_writes
        /\ ~(game_state = "PLAYING" /\ game_state' = "GAME_OVER")
              => UNCHANGED <<high_score, highscore_file, file_writes>>
      ]_vars

\* a session ended with a positive score that did not beat the high score
C8_Witness ==
    /\ obs.ticked /\ obs.collided /\ game_state = "GAME_OVER"
    /\ score > 0 /\ ~obs.saved

(***************************************************************************)
(* C9.  In one tick a projectile eliminates at most one enemy and an enemy *)
(* is eliminated by at most one projectile; for every hit resolved in the  *)
(* tick the enemy and the projectile are both absent from their            *)
(* collections at the end of the tick and the score grows by exactly 2:    *)
(* the tick's kill score is 2 times the number of enemies (equally, of     *)
(* projectiles) removed by hits.                                           *)
(***************************************************************************)
C9_HitRemovesBoth ==
    [][ LoopTick =>
          LET hits == obs'.hits
              moved_e == {EnemyUpdate(e) : e \in Range(enemies)}
              moved_p == {ProjectileUpdate(p) : p \in Range(projectiles)}
              gone_e == {e \in moved_e : e.rect.x + e.rect.w < 0}
              gone_p == {p \in moved_p : p.rect.x > width}
              culled_w == {i \in 1 .. Len(walls) :
                              PyInt(walls[i].x - walls[i].speed) + walls[i].rect.w < 0}
              spawned == IF obs'.enemy_spawned THEN 1 ELSE 0
          IN /\ \A i \in 1 .. Len(hits) :
                   /\ hits[i].enemy \in moved_e \ gone_e
                   /\ hits[i].projectile \in moved_p \ gone_p
                   /\ Overlap(hits[i].projectile.rect, hits[i].enemy.rect)
                   /\ hits[i].enemy \notin Range(enemies')
                   /\ hits[i].projectile \notin Range(projectiles')
             /\ \A i, j \in 1 .. Len(hits) :
                   i # j => /\ hits[i].enemy # hits[j].enemy
                            /\ hits[i].projectile # hits[j].projectile
             /\ Len(enemies') =
                   Len(enemies) - Cardinality(gone_e) - Len(hits) + spawned
             /\ Len(projectiles') =
                   Len(projectiles) - Cardinality(gone_p) - Len(hits)
             /\ score' - score - Cardinality(culled_w) = 4 * Len(hits)
      ]_vars

\* a tick resolved two hits: two projectiles each consumed by an enemy of
\* its own, and all four are gone
C9_Witness ==
    /\ obs.ticked /\ Len(obs.hits) = 2
    /\ obs.hits[1].enemy # obs.hits[2].enemy
    /\ obs.hits[1].projectile # obs.hits[2].projectile
    /\ \A j \in 1 .. 2 :
          /\ obs.hits[j].enemy \notin Range(enemies)
          /\ obs.hits[j].projectile \notin Range(projectiles)

(***************************************************************************)
(* C10.  Each obstacle segment removed for being fully past the left edge  *)
(* adds exactly 0.5 to the score, so a pair adds exactly 1, and obstacle   *)
(* culling is the only source of fractional score: whatever else a step    *)
(* adds is a whole number of points.                                       *)
(***************************************************************************)
C10_HalfPointPerSegment ==
    [][ LET culled_w == {i \in 1 .. Len(walls) :
                            PyInt(walls[i].x - walls[i].speed) + walls[i].rect.w < 0}
            n == Cardinality(culled_w)
            made == IF obs'.wall_spawned THEN 2 ELSE 0
        IN IF Tick
           THEN /\ Len(walls') = Len(walls) - n + made
                /\ score' >= score + n
                /\ (score' - score - n) % 2 = 0
                /\ obs'.hits = <<>> => score' = score + n
           ELSE score' = score \/ (score' = 0 /\ obs'.restarted)
      ]_vars

\* a tick removed both segments of a pair
C10_Witness == obs.ticked /\ obs.culled = 2

(***************************************************************************)
(* create_wall_pair on its own: the configured gap size and the gap centre *)
(* random.randint(gap, height - gap) returns are drawn by the initial      *)
(* state, CreateWallPair builds the pair.                                  *)
(***************************************************************************)
MaxGap == 45

\* the values of the configuration's walls.gap that are explored
GapSizes == 1 .. MaxGap

\* random.randint(gap, self.height - gap)
GapCenters(gap) == gap .. (height - gap)

InitWalls ==
    /\ InitGame
    /\ \E gap \in GapSizes :
          \E gap_y \in GapCenters(gap) :
             unit = [fn |-> "create_wall_pair", gap |-> gap, gap_y |-> gap_y,
                     walls |-> <<>>]

CreateWallPair ==
    /\ unit.walls = <<>>
    /\ unit' = [unit EXCEPT !.walls = unit.walls \o WallPair(unit.gap, unit.gap_y)]
    /\ UNCHANGED game

NextWalls == CreateWallPair

SpecWalls == InitWalls /\ [][NextWalls]_vars

(***************************************************************************)
(* C11.  Every pair create_wall_pair builds, for every gap centre it can   *)
(* draw and every configured gap size, even or odd, fills the screen       *)
(* exactly: the top segment starts at y = 0, the bottom segment ends at    *)
(* the screen bottom, and top height + gap size + bottom height equals the *)
(* screen height.  (Violated for odd gap sizes: gap // 2 is taken twice,   *)
(* so the opening is gap - 1 pixels and the sum is height + 1.)            *)
(***************************************************************************)
C11_PairFillsScreen ==
    unit.walls # <<>> =>
       LET top_wall == unit.walls[1]
           bottom_wall == unit.walls[2]
       IN /\ top_wall.rect.y = 0
          /\ RectBottom(bottom_wall.rect) = height
          /\ top_wall.rect.h + unit.gap + bottom_wall.rect.h = height

(***************************************************************************)
(* A Player object on its own: constructed as reset_game constructs it,    *)
(* then any sequence of update() and flap() calls, MaxCalls at most.        *)
(* unit.last names the last call, unit.before the velocity it found.       *)
(***************************************************************************)
MaxCalls == 8

InitPlayer ==
    /\ InitGame
    /\ unit = [fn |-> "Player", player |-> Player(width \div 4, height \div 2),
               calls |-> 0, last |-> "__init__", before |-> 0]

\* Player.update()
CallUpdate ==
    /\ unit.calls < MaxCalls
    /\ unit' = [unit EXCEPT !.player = PlayerUpdate(unit.player),
                            !.calls = unit.calls + 1,
                            !.last = "update",
                            !.before = unit.player.velocity]
    /\ UNCHANGED game

\* Player.flap()
CallFlap ==
    /\ unit.calls < MaxCalls
    /\ unit' = [unit EXCEPT !.player = PlayerFlap(unit.player),
                            !.calls = unit.calls + 1,
                            !.last = "flap",
                            !.before = unit.player.velocity]
    /\ UNCHANGED game

NextPlayer == CallUpdate \/ CallFlap

SpecPlayer == InitPlayer /\ [][NextPlayer]_vars

(***************************************************************************)
(* C12.  After any sequence of ticks and flap commands the player's        *)
(* vertical velocity never exceeds the configured max velocity; a tick     *)
(* sets the velocity to min(velocity + gravity, max_velocity), and a flap  *)
(* sets it to the flap impulse whatever fall speed had accumulated.        *)
(***************************************************************************)
C12_VelocityCapped ==
    [][ /\ unit.player.velocity <= player_max_velocity
        /\ unit'.player.velocity <= player_max_velocity
        /\ CallUpdate =>
              unit'.player.velocity =
                 Min(unit.player.velocity + player_gravity, player_max_velocity)
        /\ CallFlap => unit'.player.velocity = player_flap_strength
      ]_vars

\* an update that found the velocity at the cap and left it there
C12_Witness ==
    /\ unit.last = "update"
    /\ unit.before + player_gravity > player_max_velocity
    /\ unit.player.velocity = player_max_velocity

(***************************************************************************)
(* C13.  Within a session the score never decreases, neither from one tick *)
(* to the next nor across an input event; it changes only in a tick, by    *)
(* 0.5 for each obstacle segment culled and 2 for each enemy killed in     *)
(* that tick; only a session reset sets it back to 0.  (The score is held  *)
(* in half points: 1 per segment, 4 per kill.)                             *)
(***************************************************************************)
\* the session reset of the running game: SPACE in GAME_OVER
RestartStep == game_state = "GAME_OVER" /\ KeyPress("K_SPACE")

\* the segments the tick finds off the left edge after moving them
SegmentsLeaving ==
    Cardinality({i \in 1 .. Len(walls) : RectRight(WallUpdate(walls[i]).rect) < 0})

C13_ScoreMonotone ==
    [][ /\ score' < score => RestartStep
        /\ RestartStep => score' = 0
        /\ score' # score => (RestartStep \/ Tick)
        /\ Tick => score' = score + SegmentsLeaving + 4 * Len(obs'.hits)
      ]_vars

\* a tick that added a kill to a score that already counted culled segments
C13_Witness == obs.ticked /\ Len(obs.hits) = 1 /\ score >= 6

(***************************************************************************)
(* C14.  A tick spawns an enemy only when more than the spawn-rate         *)
(* interval has passed since the last enemy spawn (the enemy timer) and    *)
(* the live enemy count is below the level's cap; a tick spawns at most    *)
(* one enemy and nothing else adds enemies, so the live count never        *)
(* exceeds the cap; the enemy timer is stamped by every spawn and never    *)
(* moves back, so two spawns are more than the interval apart.             *)
(***************************************************************************)
\* the enemies of the next state that were created by the step: an enemy
\* that update_game_objects has not moved yet
NewEnemies == {i \in 1 .. Len(enemies') : enemies'[i].age = 0}

C14_EnemySpawnGuard ==
    [][ /\ Len(enemies') <= enemy_count
        /\ last_enemy' >= last_enemy
        /\ Len(enemies') > Len(enemies) => Tick
        /\ Tick =>
              /\ Cardinality(NewEnemies) <= 1
              /\ NewEnemies # {} =>
                    /\ now - last_enemy > enemies_spawn_rate
                    /\ Len(enemies') - 1 < enemy_count
                    /\ last_enemy' = now
              /\ NewEnemies = {} => last_enemy' = last_enemy
      ]_vars

\* a tick that was due to spawn but found the live count at the cap
C14_Witness ==
    /\ obs.ticked
    /\ ~obs.enemy_spawned
    /\ Len(enemies) = enemy_count
    /\ obs.at - last_enemy > enemies_spawn_rate

(***************************************************************************)
(* Longer sessions.  The same program followed up to MaxLongTime with a    *)
(* player who presses the start control once and then at most one key      *)
(* (SPACE or RIGHT) per frame, and no high-score file at startup: long     *)
(* enough for enemies to cross the screen, projectiles to leave it and the *)
(* obstacle timer to come round again.                                     *)
(***************************************************************************)
MaxLongTime == 3000

InitLong ==
    /\ InitGame
    /\ highscore_file = Missing
    /\ unit = NoUnit

LongStart ==
    /\ game_state = "START"
    /\ handled = 0
    /\ MouseButtonDown(1, <<width \div 2, height \div 2>>)

LongKey ==
    /\ game_state # "START"
    /\ handled = 0
    /\ \E key \in {"K_SPACE", "K_RIGHT"} :
          \E gap_y \in Drawn(GapYs, key = "K_SPACE" /\ game_state = "GAME_OVER") :
             KeyDown(key, gap_y)

LongFrame ==
    \E dt \in FrameDeltas :
       /\ now + dt <= MaxLongTime
       /\ \E gap_y \in Drawn(GapYs, game_state = "PLAYING" /\ WallDue(now, last_wall)),
             enemy_y \in Drawn(EnemyYs, game_state = "PLAYING" /\ EnemyDue(now, last_enemy)),
             phase \in Drawn(Phases, game_state = "PLAYING" /\ EnemyDue(now, last_enemy)) :
                LoopBody(dt, gap_y, enemy_y, phase)

NextLong == LongStart \/ LongKey \/ LongFrame

SpecLong == InitLong /\ [][NextLong]_vars

(***************************************************************************)
(* The same player followed a little longer: long enough for a shot that   *)
(* passed above the first enemies to meet a later one in the tick in which *)
(* the next shot meets its own.                                            *)
(***************************************************************************)
MaxVolleyTime == 3500

VolleyFrame ==
    \E dt \in FrameDeltas :
       /\ now + dt <= MaxVolleyTime
       /\ \E gap_y \in Drawn(GapYs, game_state = "PLAYING" /\ WallDue(now, last_wall)),
             enemy_y \in Drawn(EnemyYs, game_state = "PLAYING" /\ EnemyDue(now, last_enemy)),
             phase \in Drawn(Phases, game_state = "PLAYING" /\ EnemyDue(now, last_enemy)) :
                LoopBody(dt, gap_y, enemy_y, phase)

NextVolley == LongStart \/ LongKey \/ VolleyFrame

SpecVolley == InitLong /\ [][NextVolley]_vars

(***************************************************************************)
(* C15.  At the end of every tick no collection holds an entity whose      *)
(* lifetime has ended: no obstacle and no enemy whose right edge is left   *)
(* of x = 0, no projectile whose left edge is right of the screen width,   *)
(* and no enemy or projectile that a hit of that tick consumed.            *)
(***************************************************************************)
C15_NoEndedEntities ==
    obs.ticked =>
       /\ \A i \in 1 .. Len(walls) : RectRight(walls[i].rect) >= 0
       /\ \A i \in 1 .. Len(enemies) : RectRight(enemies[i].rect) >= 0
       /\ \A i \in 1 .. Len(projectiles) : projectiles[i].rect.x <= width
       /\ \A j \in 1 .. Len(obs.hits) :
             /\ obs.hits[j].enemy \notin Range(enemies)
             /\ obs.hits[j].projectile \notin Range(projectiles)

\* a tick that removed obstacle segments at the left edge and, by a hit,
\* an enemy and a projectile
C15_Witness ==
    /\ obs.ticked
    /\ obs.culled >= 1
    /\ Len(obs.hits) >= 1

(***************************************************************************)
(* Startup on its own: the content of highscore.txt is drawn by the        *)
(* initial state, Construct runs FlappyBird.__init__ up to the point where *)
(* the game is in START, or to the exception that leaves it.               *)
(***************************************************************************)
MaxStored == 30

StartupFiles == {Missing, Corrupt} \cup {IntFile(n) : n \in 0 .. MaxStored}

InitStartup ==
    /\ InitGame
    /\ \E file \in StartupFiles :
          unit = [fn |-> "__init__", file |-> file, done |-> FALSE,
                  raised |-> "none", high_score |-> 0, game_state |-> "none"]

Construct ==
    /\ ~unit.done
    /\ LET loaded == load_high_score(unit.file)
       IN unit' = IF loaded.raised # "none"
                  THEN [unit EXCEPT !.done = TRUE, !.raised = loaded.raised]
                  ELSE [unit EXCEPT !.done = TRUE, !.high_score = loaded.value,
                                    !.game_state = "START"]
    /\ UNCHANGED game

NextStartup == Construct

SpecStartup == InitStartup /\ [][NextStartup]_vars

(***************************************************************************)
(* C16.  Loading the high score at startup gives 0 both when highscore.txt *)
(* is missing and when it is present but its content is not an integer;    *)
(* neither is fatal, the game proceeds to START.  (Violated for a corrupt  *)
(* file: ValueError is not caught and the constructor does not return.)    *)
(***************************************************************************)
C16_MissingOrCorruptLoadsZero ==
    (unit.done /\ unit.file.kind \in {"missing", "corrupt"}) =>
       /\ unit.raised = "none"
       /\ unit.high_score = 0
       /\ unit.game_state = "START"

(***************************************************************************)
(* C17.  As claimed: within a tick the player-vs-obstacle, player-vs-enemy *)
(* and player-vs-bounds tests come before culling and projectile hit       *)
(* resolution, so an enemy that intersects the player after motion ends    *)
(* the session in that tick even when a projectile hits that enemy in the  *)
(* same tick.                                                              *)
(***************************************************************************)
C17_PlayerTestsFirst ==
    [][ Tick =>
          ((\E e \in Range(enemies) :
               Overlap(PlayerUpdate(player).rect, EnemyUpdate(e).rect))
           => game_state' = "GAME_OVER")
      ]_vars

(***************************************************************************)
(* C17, amended.  Within a tick motion, obstacle culling, enemy culling    *)
(* and projectile hit resolution run first, with their scoring, and the    *)
(* player tests run afterwards on what remains: a tick that ends the       *)
(* session has scored its culled segments and kills, and an enemy that     *)
(* intersects the player does not end the session when a hit of that tick  *)
(* removed it (the player intersecting no remaining obstacle or enemy and  *)
(* being inside the bounds).                                               *)
(***************************************************************************)
C17_RemovalsBeforePlayerTests ==
    [][ Tick =>
          LET killed == {obs'.hits[j].enemy : j \in 1 .. Len(obs'.hits)}
              remaining == Range(walls') \cup Range(enemies')
              inside == player'.rect.y > 0
                           /\ player'.rect.y + player'.rect.h < height
          IN /\ killed \subseteq {EnemyUpdate(e) : e \in Range(enemies)}
             /\ game_state' = "GAME_OVER" =>
                   score' = score + SegmentsLeaving + 4 * Len(obs'.hits)
             /\ (/\ inside
                 /\ \A r \in remaining : ~Overlap(player'.rect, r.rect))
                => game_state' = "PLAYING"
      ]_vars

\* a tick in which a projectile removed an enemy that intersected the
\* player, and the session went on
C17_Witness ==
    /\ obs.ticked /\ ~obs.collided /\ game_state = "PLAYING"
    /\ \E j \in 1 .. Len(obs.hits) : Overlap(player.rect, obs.hits[j].enemy.rect)

(***************************************************************************)
(* C18.  As claimed: a tick runs the spawn scheduler first, then motion,   *)
(* then collision and scoring, so an obstacle pair or an enemy spawned in  *)
(* a tick is advanced by the motion step of that tick: at the end of a     *)
(* tick no obstacle is still at its spawn column and no enemy is unmoved.  *)
(***************************************************************************)
C18_SpawnedAreAdvanced ==
    [][ Tick =>
          /\ \A w \in Range(walls') : w.x < Float(width)
          /\ \A e \in Range(enemies') : e.age >= 1 /\ e.x < Float(width)
      ]_vars

(***************************************************************************)
(* C18, amended.  A tick runs motion together with culling and hit         *)
(* resolution first, then the spawn scheduler, then the player's collision *)
(* tests.  A pair or an enemy spawned in a tick is not advanced in that    *)
(* tick: it ends the tick at x = width and is first moved by the next      *)
(* tick; and the enemy scheduler counts the enemies left after this tick's *)
(* culling and hits.                                                       *)
(***************************************************************************)
C18_SpawnAfterMotion ==
    [][ Tick =>
          LET n == Len(walls')
              m == Len(enemies')
          IN /\ WallDue(now, last_wall) =>
                   /\ n >= 2
                   /\ walls'[n - 1].x = Float(width) /\ walls'[n].x = Float(width)
                   /\ walls'[n - 1].rect.x = width /\ walls'[n].rect.x = width
                   /\ \A i \in 1 .. (n - 2) : walls'[i].x < Float(width)
             /\ ~WallDue(now, last_wall) =>
                   \A i \in 1 .. n : walls'[i].x < Float(width)
             /\ EnemyDue(now, last_enemy) =>
                   IF NewEnemies # {}
                   THEN /\ NewEnemies = {m}
                        /\ enemies'[m].x = Float(width)
                        /\ enemies'[m].rect.x = width
                        /\ m - 1 < enemy_count
                   ELSE m >= enemy_count
             /\ ~EnemyDue(now, last_enemy) => NewEnemies = {}
      ]_vars

\* a tick that spawned a pair and an enemy: both end the tick at x = width
C18_Witness ==
    /\ obs.ticked /\ obs.wall_spawned /\ obs.enemy_spawned
    /\ walls[Len(walls)].rect.x = width
    /\ enemies[Len(enemies)].rect.x = width
    /\ enemies[Len(enemies)].age = 0

(***************************************************************************)
(* C19.  Within a session two consecutive obstacle-pair creations, the     *)
(* pair forced at session start included, are more than the obstacle       *)
(* frequency apart, and until that interval has passed since session start *)
(* there is exactly one pair.  Hence a tick that creates a pair is not the *)
(* tick of the frame in which the session was reset, it leaves exactly one *)
(* pair when it is, and a scheduled creation comes more than the frequency *)
(* after the previous scheduled one.  (Violated: reset_game leaves         *)
(* last_wall at 0, so the first tick after a restart creates a second pair *)
(* whenever the clock has passed the frequency.)                           *)
(***************************************************************************)
C19_CreationsApart ==
    [][ Tick =>
          /\ obs.restarted => Len(walls') = 2
          /\ Len(walls') > Len(walls) - SegmentsLeaving =>
                /\ ~obs.restarted
                /\ last_wall # 0 => now - last_wall > wall_frequency
      ]_vars

(***************************************************************************)
(* C20.  While the state is START or GAME_OVER the simulation is frozen:   *)
(* no frame and no input except the restart key in GAME_OVER changes the   *)
(* player, the obstacle, enemy and projectile collections, the score or    *)
(* the spawn and shot timers (the begin click in START changes the state   *)
(* only).  Flap and fire take effect only in PLAYING and leave the game    *)
(* state alone: a flap changes the player's velocity and nothing else of   *)
(* the session, a fire changes at most the projectiles and the shot timer. *)
(***************************************************************************)
C20_FrozenOutsidePlaying ==
    [][ /\ (game_state # "PLAYING" /\ session' # session) => RestartStep
        /\ (game_state = "PLAYING" /\ EventStep) =>
              /\ KeyPress("K_SPACE") =>
                    /\ game_state' = "PLAYING"
                    /\ player' = [player EXCEPT !.velocity = player_flap_strength]
                    /\ UNCHANGED <<walls, enemies, projectiles, score,
                                   last_wall, last_enemy, last_shot>>
              /\ KeyPress("K_RIGHT") =>
                    /\ game_state' = "PLAYING"
                    /\ UNCHANGED <<player, walls, enemies, score,
                                   last_wall, last_enemy>>
        /\ (game_state # "PLAYING" /\ EventStep /\ game_state' # game_state) =>
              \/ game_state = "START" /\ LeftPressInside
              \/ RestartStep
      ]_vars

\* a frame went by in GAME_OVER with obstacles, an enemy and a projectile
\* on the screen and the shot cooldown over
C20_Witness ==
    /\ obs.kind = "frame" /\ obs.from = "GAME_OVER" /\ game_state = "GAME_OVER"
    /\ walls # <<>> /\ enemies # <<>> /\ projectiles # <<>>
    /\ obs.at - last_shot > shot_cooldown

(***************************************************************************)
(* C21.  The two segments of an obstacle pair always have the same x, the  *)
(* same width and the same speed, so a tick culls both or neither: the     *)
(* obstacle collection always holds an even number of segments, a tick     *)
(* culls an even number, the score is a whole number (an even number of    *)
(* half points) at the end of every tick, and the high score a tick stores *)
(* is the score itself, nothing being lost by the truncation.              *)
(***************************************************************************)
C21_PairsStayTogether ==
    /\ Len(walls) % 2 = 0
    /\ \A k \in 1 .. (Len(walls) \div 2) :
          LET top_wall == walls[2 * k - 1]
              bottom_wall == walls[2 * k]
          IN /\ top_wall.x = bottom_wall.x
             /\ top_wall.rect.x = bottom_wall.rect.x
             /\ top_wall.rect.w = bottom_wall.rect.w
             /\ top_wall.speed = bottom_wall.speed
    /\ obs.culled % 2 = 0
    /\ score % 2 = 0
    /\ obs.saved => Float(high_score) = score

\* a tick culled a pair, ended the session and stored the score as the new
\* high score
C21_Witness ==
    /\ obs.ticked /\ obs.collided /\ obs.saved
    /\ obs.culled = 2
    /\ Float(high_score) = score
    /\ highscore_file = IntFile(high_score)

(***************************************************************************)
(* Sessions left to themselves.  The loop of SpecLong with a player who    *)
(* delivers no input after MaxInputTime: no begin click, no flap, no fire, *)
(* no restart.  Frames are followed up to MaxFallTime.  The loop itself    *)
(* keeps iterating (while running: ... self.clock.tick(fps)): that is weak *)
(* fairness of the step that ends an iteration and advances the clock.     *)
(* ClockTick names that step by its guard and its effect on the clock;     *)
(* FallFrame is the only action that changes now, it implies ClockTick and *)
(* is enabled whenever ClockTick is, so WF_now(ClockTick) is weak fairness *)
(* of FallFrame.                                                           *)
(***************************************************************************)
MaxInputTime == 1500
MaxFallTime == 4500

InitFall == InitLong

FallStart == now <= MaxInputTime /\ LongStart

FallKey == now <= MaxInputTime /\ LongKey

FallFrame ==
    \E dt \in FrameDeltas :
       /\ now + dt <= MaxFallTime
       /\ \E gap_y \in Drawn(GapYs, game_state = "PLAYING" /\ WallDue(now, last_wall)),
             enemy_y \in Drawn(EnemyYs, game_state = "PLAYING" /\ EnemyDue(now, last_enemy)),
             phase \in Drawn(Phases, game_state = "PLAYING" /\ EnemyDue(now, last_enemy)) :
                LoopBody(dt, gap_y, enemy_y, phase)

NextFall == FallStart \/ FallKey \/ FallFrame

\* self.clock.tick(self.config['window']['fps']) at the end of an iteration
ClockTick ==
    \E dt \in FrameDeltas :
       ~exited /\ now + dt <= MaxFallTime /\ now' = now + dt

SpecFall == InitFall /\ [][NextFall]_vars /\ WF_now(ClockTick)

(***************************************************************************)
(* C22.  With gravity > 0 and max velocity > 0, once no more flaps are     *)
(* delivered and the frame loop keeps ticking, a game that is PLAYING      *)
(* eventually is in GAME_OVER: the player falls until it hits an obstacle, *)
(* an enemy or the bottom bound.                                           *)
(***************************************************************************)
C22_FallEndsSession == (game_state = "PLAYING") ~> (game_state = "GAME_OVER")

\* a session that got its last input, a flap, at MaxInputTime and ended on
\* the bottom bound at full fall speed
C22_Witness ==
    /\ obs.ticked /\ obs.collided /\ game_state = "GAME_OVER"
    /\ obs.at > MaxInputTime
    /\ player.velocity = player_max_velocity
    /\ RectBottom(player.rect) >= height
    /\ \A w \in Range(walls) : ~Overlap(player.rect, w.rect)
    /\ \A e \in Range(enemies) : ~Overlap(player.rect, e.rect)

====
